---- MODULE Spec2Model ----
(***************************************************************************)
(* A model of the nitriding enclave daemon (src/enclave.go): construction  *)
(* and configuration validation, certificate provisioning and fingerprint  *)
(* extraction, the two web servers and their route tables, the key         *)
(* material registry behind the enclave's reader/writer lock, and the      *)
(* nonce store used by the attestation endpoint.                           *)
(*                                                                         *)
(* Code that enclave.go calls but that lives in other files of the         *)
(* repository (the nonce cache, the HTTP handlers, listenHTTP01,           *)
(* createUnixSocket) is modelled after spec.md and marked as such.         *)
(***************************************************************************)
EXTENDS Integers, Sequences, FiniteSets, TLC

\* ------------------------------------------------------------------ bounds
\* Number of concurrent request-handling goroutines / API callers.
MaxThreads == 2
\* Payload bytes are drawn from 1..MaxByte.
MaxByte == 2
\* Longest PEM input (in items) handed to setCertFingerprint on its own.
MaxPemLen == 3
\* Number of distinct nonces that can be issued in a run.
MaxNonces == 2
\* The clock runs from 0 to MaxClock.
MaxClock == 2
\* Failed cache lookups of setupAcme's goroutine are counted up to MaxPolls.
MaxPolls == 2

\* ------------------------------------------------------- program constants
\* var ( errNoKeyMaterial, errCfgMissingFQDN, errCfgMissingPort )
NoErr == "nil"
errNoKeyMaterial == "no key material registered"
errCfgMissingFQDN == "given config is missing FQDN"
errCfgMissingPort == "given config is missing port"
errPemDecode == "pem.Decode failed because it didn't find PEM data in the input we provided"
errParseCertificate == "x509: malformed certificate"
\* What listenHTTP01 sends on errChan when it cannot listen.
errHTTP01 == "HTTP-01 listener failed"
\* startWebServers, line 212.
errUnixSocket == "failed to create unix domain socket"

\* const ( pathNonce ... pathRoot )
pathNonce == "/nonce"
pathAttestation == "/attestation"
pathGetKeys == "/get-keys"
pathPostKeys == "/post-keys"
pathRoot == "/"

\* Time-to-live of a nonce, in clock ticks (newCache(defaultItemExpiry)).
defaultItemExpiry == 1

Threads == 1..MaxThreads
Nonces == 1..MaxNonces
\* Goroutines: the request handlers and API callers, the goroutine that calls
\* NewEnclave and Start, and the one setupAcme launches.
MainG == MaxThreads + 1
BgG == MaxThreads + 2

\* ------------------------------------------------------------------ values
\* A value of Go's `any`: the nil interface, or a payload of bytes (which may
\* be empty without being nil).
NilPayload == [nil |-> TRUE, data |-> <<>>]
BytePayload(d) == [nil |-> FALSE, data |-> d]
Payloads ==
    {NilPayload} \cup {BytePayload(<<>>)} \cup {BytePayload(<<b>>) : b \in 1..MaxByte}
\* A payload that is neither nil nor empty.
NonEmpty(p) == ~p.nil /\ p.data # <<>>

\* The zero value of [sha256.Size]byte.
ZeroFpr == 0

\* ------------------------------------------------------------ PEM and X.509
\* rawData is a sequence of items: well-formed PEM blocks and stretches of
\* bytes that are not PEM.  A block carries its type line and its DER bytes.
CertBlock(der) == [kind |-> "block", type |-> "CERTIFICATE", der |-> der]
KeyBlock == [kind |-> "block", type |-> "PRIVATE KEY", der |-> "key"]
Junk == [kind |-> "junk", type |-> "", der |-> ""]
NoBlock == [kind |-> "nil", type |-> "", der |-> ""]

\* DER encodings: two end-entity certificates, a CA certificate, bytes that
\* do not parse as a certificate.
CertDers == {"leafA", "leafB", "ca", "bad"}
PemItems == {CertBlock(d) : d \in CertDers} \cup {KeyBlock, Junk}

RECURSIVE SeqsUpTo(_, _)
SeqsUpTo(S, n) ==
    IF n = 0 THEN {<<>>}
    ELSE LET shorter == SeqsUpTo(S, n - 1)
         IN  shorter \cup {Append(s, x) : s \in {q \in shorter : Len(q) = n - 1}, x \in S}

PemInputs == SeqsUpTo(PemItems, MaxPemLen)

\* pem.Decode: the first well-formed block of data and what follows it; when
\* there is none, a nil block and the input itself.
pemDecode(data) ==
    LET idx == {i \in 1..Len(data) : data[i].kind = "block"}
    IN  IF idx = {} THEN [block |-> NoBlock, rest |-> data]
        ELSE LET i == CHOOSE k \in idx : \A j \in idx : k <= j
             IN  [block |-> data[i], rest |-> SubSeq(data, i + 1, Len(data))]

\* x509.ParseCertificate: the certificate's IsCA flag and Raw bytes, or an
\* error.
x509ParseCertificate(der) ==
    [err |-> IF der \in {"leafA", "leafB", "ca"} THEN NoErr ELSE errParseCertificate,
     IsCA |-> (der = "ca"),
     Raw |-> der]

\* sha256.Sum256 over a certificate's raw bytes: a digest, never the zero
\* array for the encodings used here.
sha256Sum256(raw) ==
    CASE raw = "leafA" -> 17
      [] raw = "leafB" -> 29
      [] raw = "ca" -> 43
      [] OTHER -> 59

\* One iteration of the for loop of setCertFingerprint (lines 350-365): either
\* the function returns (ret), with or without a store to e.certFpr, or the
\* loop goes on with rawData = rest.
\* Variant: the IsCA test of line 359 is missing.
certFprIter_firstCert(rawData) ==
    LET d == pemDecode(rawData)
        cert == x509ParseCertificate(d.block.der)
    IN  IF d.block = NoBlock
        THEN [ret |-> TRUE, err |-> errPemDecode, store |-> FALSE, fpr |-> ZeroFpr, rawData |-> rawData]
        ELSE IF d.block.type = "CERTIFICATE"
        THEN IF cert.err # NoErr
             THEN [ret |-> TRUE, err |-> cert.err, store |-> FALSE, fpr |-> ZeroFpr, rawData |-> rawData]
             ELSE [ret |-> TRUE, err |-> NoErr, store |-> TRUE,
                   fpr |-> sha256Sum256(cert.Raw), rawData |-> rawData]
        ELSE [ret |-> FALSE, err |-> NoErr, store |-> FALSE, fpr |-> ZeroFpr, rawData |-> d.rest]

\* Variant: a nil block returns nil instead of the error of line 352.
certFprIter_nilOnNoBlock(rawData) ==
    LET d == pemDecode(rawData)
        cert == x509ParseCertificate(d.block.der)
    IN  IF d.block = NoBlock
        THEN [ret |-> TRUE, err |-> NoErr, store |-> FALSE, fpr |-> ZeroFpr, rawData |-> rawData]
        ELSE IF d.block.type = "CERTIFICATE" /\ cert.err # NoErr
        THEN [ret |-> TRUE, err |-> cert.err, store |-> FALSE, fpr |-> ZeroFpr, rawData |-> rawData]
        ELSE IF d.block.type = "CERTIFICATE" /\ ~cert.IsCA
        THEN [ret |-> TRUE, err |-> NoErr, store |-> TRUE,
              fpr |-> sha256Sum256(cert.Raw), rawData |-> rawData]
        ELSE [ret |-> FALSE, err |-> NoErr, store |-> FALSE, fpr |-> ZeroFpr, rawData |-> d.rest]

\* The loop body as written.
certFprIter(rawData) ==
    LET d == pemDecode(rawData)
        cert == x509ParseCertificate(d.block.der)
    IN  IF d.block = NoBlock
        THEN [ret |-> TRUE, err |-> errPemDecode, store |-> FALSE, fpr |-> ZeroFpr, rawData |-> rawData]
        ELSE IF d.block.type = "CERTIFICATE" /\ cert.err # NoErr
        THEN [ret |-> TRUE, err |-> cert.err, store |-> FALSE, fpr |-> ZeroFpr, rawData |-> rawData]
        ELSE IF d.block.type = "CERTIFICATE" /\ ~cert.IsCA
        THEN [ret |-> TRUE, err |-> NoErr, store |-> TRUE,
              fpr |-> sha256Sum256(cert.Raw), rawData |-> rawData]
        ELSE [ret |-> FALSE, err |-> NoErr, store |-> FALSE, fpr |-> ZeroFpr, rawData |-> d.rest]

\* The loop guard `rest != nil` reads the outer rest, which is []byte{} and is
\* never assigned (the := in the body declares a new rest): it is always true.
\* Variant: the guard fails.
outerRestNotNil_fails == FALSE

\* The guard as written.
outerRestNotNil == TRUE

\* setCertFingerprint run to its return: the error it returns and whether and
\* what it stored.
RECURSIVE setCertFingerprintRun(_)
setCertFingerprintRun(rawData) ==
    IF ~outerRestNotNil
    THEN [ret |-> TRUE, err |-> NoErr, store |-> FALSE, fpr |-> ZeroFpr, rawData |-> rawData]
    ELSE LET it == certFprIter(rawData)
         IN  IF it.ret THEN it ELSE setCertFingerprintRun(it.rawData)

\* ------------------------------------------------------------------- state
VARIABLES
    cfg,          \* the Config handed to NewEnclave
    mainPc,       \* where the goroutine calling NewEnclave and Start stands
    retErr,       \* the error NewEnclave or Start returned
    alive,        \* FALSE once elog.Fatal has ended the process
    pubRoutes,    \* routes of e.pubSrv.Handler
    privRoutes,   \* routes of e.privSrv.Handler
    pubSrv,       \* state of the public web server's goroutine
    privSrv,      \* state of the enclave-internal web server's goroutine
    tlsConfig,    \* e.pubSrv.TLSConfig
    certFpr,      \* e.certFpr
    fprWriter,    \* the goroutines in the middle of the store to e.certFpr
    fprPending,   \* the digest being stored
    keyMaterial,  \* e.keyMaterial
    lockW,        \* the goroutines holding e.RWMutex exclusively
    lockR,        \* the goroutines holding e.RWMutex shared
    nonceCache,   \* e.nonceCache
    clock,        \* time.Now
    bgPc,         \* where the goroutine launched by setupAcme stands
    bgRaw,        \* its rawData
    certCache,    \* what the autocert cache holds for cfg.FQDN
    polls,        \* history: its failed cache lookups so far (counted to MaxPolls)
    thr,          \* per handler goroutine: position and arguments
    res,          \* the result most recently returned by a call or a handler
    issued,       \* history: the nonces GET /nonce has returned
    consumed,     \* history: per nonce, the successful consumptions
    evid,         \* history: per nonce, the attestation documents returned
    everSet,      \* history: SetKeyMaterial has stored at least once
    lastPayload,  \* history: the argument of the latest SetKeyMaterial store
    overwrote,    \* history: a store has replaced a non-empty payload by another
    fprArg,       \* setCertFingerprint called on its own: its argument
    fprIn,        \* ... its rawData
    fprPc,        \* ... its position
    fprRet        \* ... the error it returned

vars ==
    <<cfg, mainPc, retErr, alive, pubRoutes, privRoutes, pubSrv, privSrv, tlsConfig,
      certFpr, fprWriter, fprPending, keyMaterial, lockW, lockR, nonceCache, clock,
      bgPc, bgRaw, certCache, polls, thr, res, issued, consumed, evid, everSet, lastPayload, overwrote,
      fprArg, fprIn, fprPc, fprRet>>

bootVars == <<cfg, mainPc, retErr, pubRoutes, privRoutes, tlsConfig>>
srvVars == <<pubSrv, privSrv>>
fprVars == <<certFpr, fprWriter, fprPending>>
kmVars == <<keyMaterial, lockW, lockR, everSet, lastPayload, overwrote>>
nonceVars == <<nonceCache, clock, issued, consumed, evid>>
bgVars == <<bgPc, bgRaw, certCache, polls>>
thrVars == <<thr, res>>
unitVars == <<fprArg, fprIn, fprPc, fprRet>>

\* --------------------------------------------------------------- construction
Configs == [FQDN : {"", "example.com"}, Port : {0, 8443}, UseACME : BOOLEAN]

\* Config.Validate.  Variant: the two tests in the other order.
Validate_portFirst(c) ==
    IF c.Port = 0 THEN errCfgMissingPort
    ELSE IF c.FQDN = "" THEN errCfgMissingFQDN
    ELSE NoErr

\* Config.Validate as written: FQDN first, then Port.
Validate(c) ==
    IF c.FQDN = "" THEN errCfgMissingFQDN
    ELSE IF c.Port = 0 THEN errCfgMissingPort
    ELSE NoErr

Route(m, p, h) == [method |-> m, path |-> p, handler |-> h]

\* NewEnclave, lines 155-159: the public HTTP API.  Variant: the injection
\* route registered on the public router as well.
PublicAPI_withPostKeys ==
    {Route("GET", pathAttestation, "attestation"), Route("GET", pathNonce, "nonce"),
     Route("GET", pathGetKeys, "getKeys"), Route("GET", pathRoot, "index"),
     Route("PUT", pathPostKeys, "setKeys")}

\* The public HTTP API as written.
PublicAPI ==
    {Route("GET", pathAttestation, "attestation"), Route("GET", pathNonce, "nonce"),
     Route("GET", pathGetKeys, "getKeys"), Route("GET", pathRoot, "index")}

\* NewEnclave, lines 161-162: the enclave-internal HTTP API.
InternalAPI == {Route("PUT", pathPostKeys, "setKeys")}

\* newCache(ttl): an empty store of nonces with their creation times.
newCache(ttl) == [made |-> TRUE, items |-> {}, ttl |-> ttl]
NoCache == [made |-> FALSE, items |-> {}, ttl |-> 0]

\* NewEnclave, line 152.  Variant: a time-to-live no nonce outlives.
NewNonceCache_noExpiry == newCache(MaxClock + 1)

\* The store as NewEnclave creates it.
NewNonceCache == newCache(defaultItemExpiry)

\* The autocert cache's entry for cfg.FQDN.
CacheMiss == [hit |-> FALSE, data |-> <<>>]
CacheHit(data) == [hit |-> TRUE, data |-> data]
\* What may be found there: the key, the leaf and its issuer as autocert
\* writes them; a chain without a leaf; bytes that are not PEM.
CacheData ==
    {<<KeyBlock, CertBlock("leafB"), CertBlock("ca")>>, <<KeyBlock, CertBlock("ca")>>, <<Junk>>}

NoResult == [op |-> "", via |-> "", method |-> "", path |-> "", code |-> "", err |-> NoErr, km |-> NilPayload, nonce |-> 0, fpr |-> ZeroFpr]
Idle == [pc |-> "idle", via |-> "", p |-> NilPayload, n |-> 0]

InitCommon ==
    /\ mainPc = "new"
    /\ retErr = NoErr
    /\ alive = TRUE
    /\ pubRoutes = {}
    /\ privRoutes = {}
    /\ pubSrv = "stopped"
    /\ privSrv = "stopped"
    /\ tlsConfig = "none"
    /\ certFpr = ZeroFpr
    /\ fprWriter = {}
    /\ fprPending = ZeroFpr
    /\ keyMaterial = NilPayload
    /\ lockW = {}
    /\ lockR = {}
    /\ nonceCache = NoCache
    /\ clock = 0
    /\ bgPc = "none"
    /\ bgRaw = <<>>
    /\ certCache = CacheMiss
    /\ polls = 0
    /\ thr = [t \in Threads |-> Idle]
    /\ res = NoResult
    /\ issued = {}
    /\ consumed = [n \in Nonces |-> 0]
    /\ evid = [n \in Nonces |-> 0]
    /\ everSet = FALSE
    /\ lastPayload = NilPayload
    /\ overwrote = FALSE
    /\ fprArg = <<>>
    /\ fprIn = <<>>
    /\ fprPc = "idle"
    /\ fprRet = NoErr

Init ==
    /\ cfg \in Configs
    /\ InitCommon

\* NewEnclave (lines 138-170).
NewEnclave ==
    /\ alive
    /\ mainPc = "new"
    /\ IF Validate(cfg) # NoErr
       THEN /\ mainPc' = "new_err"
            /\ retErr' = Validate(cfg)
            /\ UNCHANGED <<pubRoutes, privRoutes, nonceCache>>
       ELSE /\ mainPc' = "created"
            /\ retErr' = NoErr
            /\ pubRoutes' = PublicAPI
            /\ privRoutes' = InternalAPI
            /\ nonceCache' = NewNonceCache
    /\ UNCHANGED <<cfg, alive, tlsConfig, srvVars, fprVars, kmVars, clock, issued, consumed,
                   evid, bgVars, thrVars, unitVars>>

\* ----------------------------------------------------------------- Start
\* Start, lines 175-193: setFdLimit (its error is only logged), go
\* runNetworking, then the branch on cfg.UseACME.  Variant: the certificate
\* is self-signed whatever cfg.UseACME says.
StartBegin_alwaysSelfSigned ==
    /\ alive
    /\ mainPc = "created"
    /\ mainPc' = "gen_cert"
    /\ UNCHANGED <<cfg, retErr, alive, pubRoutes, privRoutes, tlsConfig, srvVars, fprVars,
                   kmVars, nonceVars, bgVars, thrVars, unitVars>>

\* The branch as written.
StartBegin ==
    /\ alive
    /\ mainPc = "created"
    /\ mainPc' = IF cfg.UseACME THEN "acme_listen" ELSE "gen_cert"
    /\ UNCHANGED <<cfg, retErr, alive, pubRoutes, privRoutes, tlsConfig, srvVars, fprVars,
                   kmVars, nonceVars, bgVars, thrVars, unitVars>>

\* Start, lines 194-196: a provisioning error is returned.
ReturnErr(e) ==
    /\ mainPc' = "ret_err"
    /\ retErr' = e

\* genSelfSignedCert writes one CERTIFICATE block; its template sets
\* BasicConstraintsValid without IsCA (lines 237-256).
SelfSignedPem == <<CertBlock("leafA")>>

\* genSelfSignedCert, lines 224-259: key, serial number, certificate, PEM.
GenCert ==
    /\ alive
    /\ mainPc = "gen_cert"
    /\ \E ok \in BOOLEAN :
          IF ok THEN mainPc' = "set_fpr" /\ retErr' = retErr
          ELSE ReturnErr("failed to create certificate")
    /\ UNCHANGED <<cfg, alive, pubRoutes, privRoutes, tlsConfig, srvVars, fprVars,
                   kmVars, nonceVars, bgVars, thrVars, unitVars>>

\* genSelfSignedCert, lines 262-264: setCertFingerprint(pemCert) up to its
\* store to e.certFpr (line 360), taken without e.Lock().
MainSetCertFingerprint ==
    /\ alive
    /\ mainPc = "set_fpr"
    /\ LET r == setCertFingerprintRun(SelfSignedPem)
       IN  IF r.err # NoErr
           THEN ReturnErr(r.err) /\ UNCHANGED fprVars
           ELSE /\ mainPc' = IF r.store THEN "fpr_store" ELSE "key_pair"
                /\ retErr' = retErr
                /\ fprWriter' = IF r.store THEN fprWriter \cup {MainG} ELSE fprWriter
                /\ fprPending' = IF r.store THEN r.fpr ELSE fprPending
                /\ certFpr' = certFpr
    /\ UNCHANGED <<cfg, alive, pubRoutes, privRoutes, tlsConfig, srvVars,
                   kmVars, nonceVars, bgVars, thrVars, unitVars>>

\* setCertFingerprint, lines 360-362: the store completes.  Variant: the
\* assignment to e.certFpr is missing.
MainFprStore_skip ==
    /\ alive
    /\ mainPc = "fpr_store"
    /\ fprWriter' = fprWriter \ {MainG}
    /\ mainPc' = "key_pair"
    /\ UNCHANGED <<cfg, retErr, alive, pubRoutes, privRoutes, tlsConfig, srvVars, fprPending,
                   certFpr, kmVars, nonceVars, bgVars, thrVars, unitVars>>

\* The store as written.
MainFprStore ==
    /\ alive
    /\ mainPc = "fpr_store"
    /\ certFpr' = fprPending
    /\ fprWriter' = fprWriter \ {MainG}
    /\ mainPc' = "key_pair"
    /\ UNCHANGED <<cfg, retErr, alive, pubRoutes, privRoutes, tlsConfig, srvVars, fprPending,
                   kmVars, nonceVars, bgVars, thrVars, unitVars>>

\* genSelfSignedCert, lines 266-284: the key is marshalled and encoded
\* (elog.Fatal on failure), the key pair built, the TLS configuration set.
GenKeyPair ==
    /\ alive
    /\ mainPc = "key_pair"
    /\ \E outcome \in {"ok", "err", "fatal"} :
          \/ /\ outcome = "ok"
             /\ tlsConfig' = "static"
             /\ mainPc' = "start_servers"
             /\ UNCHANGED <<retErr, alive>>
          \/ /\ outcome = "err"
             /\ ReturnErr("tls: failed to build key pair")
             /\ UNCHANGED <<tlsConfig, alive>>
          \/ /\ outcome = "fatal"
             /\ alive' = FALSE
             /\ UNCHANGED <<tlsConfig, mainPc, retErr>>
    /\ UNCHANGED <<cfg, pubRoutes, privRoutes, srvVars, fprVars,
                   kmVars, nonceVars, bgVars, thrVars, unitVars>>

\* setupAcme, lines 312-316: what listenHTTP01 sends on errChan.  Variant:
\* the resolver is installed and the polling goroutine launched before
\* errChan is read.
AcmeListen_installFirst ==
    /\ alive
    /\ mainPc = "acme_listen"
    /\ tlsConfig' = "acme"
    /\ bgPc' = "poll"
    /\ \E ok \in BOOLEAN :
          IF ok THEN mainPc' = "start_servers" /\ retErr' = retErr
          ELSE ReturnErr(errHTTP01)
    /\ UNCHANGED <<cfg, alive, pubRoutes, privRoutes, srvVars, fprVars,
                   kmVars, nonceVars, bgRaw, certCache, polls, thrVars, unitVars>>

\* errChan is read first, as written.
AcmeListen ==
    /\ alive
    /\ mainPc = "acme_listen"
    /\ \E ok \in BOOLEAN :
          IF ok THEN mainPc' = "acme_install" /\ retErr' = retErr
          ELSE ReturnErr(errHTTP01)
    /\ UNCHANGED <<cfg, alive, pubRoutes, privRoutes, tlsConfig, srvVars, fprVars,
                   kmVars, nonceVars, bgVars, thrVars, unitVars>>

\* setupAcme, lines 318-340: the dynamic resolver is installed, the polling
\* goroutine launched, nil returned.
AcmeInstall ==
    /\ alive
    /\ mainPc = "acme_install"
    /\ tlsConfig' = "acme"
    /\ bgPc' = "poll"
    /\ mainPc' = "start_servers"
    /\ UNCHANGED <<cfg, retErr, alive, pubRoutes, privRoutes, srvVars, fprVars,
                   kmVars, nonceVars, bgRaw, certCache, polls, thrVars, unitVars>>

\* startWebServers (lines 207-218) and Start's return (lines 198-202).
StartWebServers ==
    /\ alive
    /\ mainPc = "start_servers"
    /\ \E ok \in BOOLEAN :
          IF ok
          THEN /\ privSrv' = "spawned"
               /\ pubSrv' = "spawned"
               /\ mainPc' = "ret_ok"
               /\ retErr' = NoErr
          ELSE /\ ReturnErr(errUnixSocket)
               /\ UNCHANGED srvVars
    /\ UNCHANGED <<cfg, alive, pubRoutes, privRoutes, tlsConfig, fprVars,
                   kmVars, nonceVars, bgVars, thrVars, unitVars>>

\* go e.privSrv.Serve(l): the goroutine starts serving.
PrivServe ==
    /\ alive
    /\ privSrv = "spawned"
    /\ privSrv' = "serving"
    /\ UNCHANGED <<bootVars, alive, pubSrv, fprVars, kmVars, nonceVars, bgVars, thrVars, unitVars>>

\* go e.pubSrv.ListenAndServeTLS("", ""): the goroutine listens and serves,
\* or returns an error nobody reads.
PubListen ==
    /\ alive
    /\ pubSrv = "spawned"
    /\ pubSrv' \in {"serving", "failed"}
    /\ UNCHANGED <<bootVars, alive, privSrv, fprVars, kmVars, nonceVars, bgVars, thrVars, unitVars>>

\* ------------------------------------------------- setupAcme's goroutine
\* The autocert manager stores the certificate it obtained (or the directory
\* cache already holds an entry).  Only the polling goroutine reads the
\* cache, so the entry appears while it polls.
CachePut ==
    /\ alive
    /\ bgPc = "poll"
    /\ ~certCache.hit
    /\ \E d \in CacheData : certCache' = CacheHit(d)
    /\ UNCHANGED <<bootVars, alive, srvVars, fprVars, kmVars, nonceVars, bgPc, bgRaw, polls,
                   thrVars, unitVars>>

\* setupAcme, lines 324-335: one cache.Get; on an error the goroutine sleeps
\* and looks again, otherwise it leaves the loop with rawData.  The loop
\* keeps no count of its iterations; polls records the first MaxPolls of them.
\* Variant: the goroutine returns after a failed lookup.
BgPoll_giveUp ==
    /\ alive
    /\ bgPc = "poll"
    /\ IF certCache.hit
       THEN bgRaw' = certCache.data /\ bgPc' = "got" /\ polls' = polls
       ELSE bgPc' = "done" /\ polls' = polls /\ bgRaw' = bgRaw
    /\ UNCHANGED <<bootVars, alive, srvVars, fprVars, kmVars, nonceVars, certCache,
                   thrVars, unitVars>>

\* Variant: the goroutine never leaves the loop, whatever cache.Get returns.
BgPoll_noBreak ==
    /\ alive
    /\ bgPc = "poll"
    /\ polls < MaxPolls
    /\ polls' = polls + 1
    /\ UNCHANGED <<bootVars, alive, srvVars, fprVars, kmVars, nonceVars, bgPc, bgRaw, certCache,
                   thrVars, unitVars>>

\* The loop as written.
BgPoll ==
    /\ alive
    /\ bgPc = "poll"
    /\ IF certCache.hit
       THEN bgRaw' = certCache.data /\ bgPc' = "got" /\ polls' = polls
       ELSE /\ polls' = IF polls < MaxPolls THEN polls + 1 ELSE polls
            /\ UNCHANGED <<bgRaw, bgPc>>
    /\ UNCHANGED <<bootVars, alive, srvVars, fprVars, kmVars, nonceVars, certCache,
                   thrVars, unitVars>>

\* setupAcme, lines 336-338: setCertFingerprint(rawData) up to its store to
\* e.certFpr; an error ends the process (elog.Fatalf).
BgSetCertFingerprint ==
    /\ alive
    /\ bgPc = "got"
    /\ LET r == setCertFingerprintRun(bgRaw)
       IN  IF r.err # NoErr
           THEN alive' = FALSE /\ UNCHANGED <<bgPc, fprVars>>
           ELSE /\ alive' = alive
                /\ bgPc' = IF r.store THEN "fpr_store" ELSE "done"
                /\ fprWriter' = IF r.store THEN fprWriter \cup {BgG} ELSE fprWriter
                /\ fprPending' = IF r.store THEN r.fpr ELSE fprPending
                /\ certFpr' = certFpr
    /\ UNCHANGED <<bootVars, srvVars, kmVars, nonceVars, bgRaw, certCache, polls, thrVars, unitVars>>

\* setCertFingerprint, lines 360-362, in setupAcme's goroutine, which then
\* ends (line 339).  Variant: the goroutine goes back to polling the cache.
BgFprStore_repoll ==
    /\ alive
    /\ bgPc = "fpr_store"
    /\ certFpr' = fprPending
    /\ fprWriter' = fprWriter \ {BgG}
    /\ bgPc' = "poll"
    /\ UNCHANGED <<bootVars, alive, srvVars, fprPending, kmVars, nonceVars, bgRaw, certCache,
                   polls, thrVars, unitVars>>

\* The store and the goroutine's end as written.
BgFprStore ==
    /\ alive
    /\ bgPc = "fpr_store"
    /\ certFpr' = fprPending
    /\ fprWriter' = fprWriter \ {BgG}
    /\ bgPc' = "done"
    /\ UNCHANGED <<bootVars, alive, srvVars, fprPending, kmVars, nonceVars, bgRaw, certCache,
                   polls, thrVars, unitVars>>

\* ------------------------------------------------------------ key material
EnclaveExists == mainPc \notin {"new", "new_err"}

\* SetKeyMaterial, line 381: the value e.keyMaterial holds after the store.
\* Variant: the payload is appended to what is stored.
StoreKeyMaterial_merge(old, p) ==
    IF old.nil THEN p ELSE BytePayload(old.data \o p.data)

\* The assignment as written.
StoreKeyMaterial(old, p) == p

\* KeyMaterial, lines 389-392: the pair it returns.  (An interface holding
\* an empty payload is not the nil interface.)  Variant: an empty payload is
\* taken for none.
KeyMaterialRet_emptyIsUnset(km) ==
    IF km.nil \/ km.data = <<>> THEN [km |-> NilPayload, err |-> errNoKeyMaterial]
    ELSE [km |-> km, err |-> NoErr]

\* The test as written: e.keyMaterial == nil.
KeyMaterialRet(km) ==
    IF km = NilPayload THEN [km |-> NilPayload, err |-> errNoKeyMaterial]
    ELSE [km |-> km, err |-> NoErr]

\* SetKeyMaterial, line 378: e.Lock() returns once nobody holds the lock.
\* Variant: it does not wait for the readers.
LockAcquire_ignoreReaders(t) ==
    /\ lockW = {}
    /\ lockW' = {t}
    /\ lockR' = lockR

\* sync.RWMutex.Lock as it is.
LockAcquire(t) ==
    /\ lockW = {}
    /\ lockR = {}
    /\ lockW' = {t}
    /\ lockR' = lockR

\* KeyMaterial, line 386: e.RLock() returns once nobody holds it exclusively.
RLockAcquire(t) ==
    /\ lockW = {}
    /\ lockR' = lockR \cup {t}
    /\ lockW' = lockW

\* The application calls e.SetKeyMaterial(p), which takes the lock.
CallSetKeyMaterial(t, p) ==
    /\ alive
    /\ EnclaveExists
    /\ thr[t].pc = "idle"
    /\ LockAcquire(t)
    /\ thr' = [thr EXCEPT ![t] = [pc |-> "set_cs", via |-> "lib", p |-> p, n |-> 0]]
    /\ UNCHANGED <<bootVars, alive, srvVars, fprVars, keyMaterial, everSet, lastPayload, overwrote,
                   nonceVars, bgVars, res, unitVars>>

\* The application calls e.KeyMaterial(), which takes the lock shared.
CallKeyMaterial(t) ==
    /\ alive
    /\ EnclaveExists
    /\ thr[t].pc = "idle"
    /\ RLockAcquire(t)
    /\ thr' = [thr EXCEPT ![t] = [pc |-> "get_cs", via |-> "lib", p |-> NilPayload, n |-> 0]]
    /\ UNCHANGED <<bootVars, alive, srvVars, fprVars, keyMaterial, everSet, lastPayload, overwrote,
                   nonceVars, bgVars, res, unitVars>>

\* SetKeyMaterial, lines 379-382: the store, then the deferred e.Unlock().
SetStore(t) ==
    /\ alive
    /\ thr[t].pc = "set_cs"
    /\ keyMaterial' = StoreKeyMaterial(keyMaterial, thr[t].p)
    /\ everSet' = TRUE
    /\ lastPayload' = thr[t].p
    /\ overwrote' = (overwrote \/ (NonEmpty(lastPayload) /\ thr[t].p # lastPayload))
    /\ lockW' = lockW \ {t}
    /\ res' = [NoResult EXCEPT !.op = "set", !.code = IF thr[t].via = "lib" THEN "" ELSE "200"]
    /\ thr' = [thr EXCEPT ![t] = Idle]
    /\ UNCHANGED <<bootVars, alive, srvVars, fprVars, lockR, nonceVars, bgVars, unitVars>>

\* KeyMaterial, lines 387-392: the read, then the deferred e.RUnlock().  A
\* handler answers with the payload, or with a not-found failure.
\* Variant: the key material is handed over, the slot left empty.
GetRead_clears(t) ==
    /\ alive
    /\ thr[t].pc = "get_cs"
    /\ LET r == KeyMaterialRet(keyMaterial)
       IN  res' = [NoResult EXCEPT !.op = "get", !.km = r.km, !.err = r.err,
                                   !.code = IF thr[t].via = "lib" THEN ""
                                            ELSE IF r.err = NoErr THEN "200" ELSE "404"]
    /\ keyMaterial' = NilPayload
    /\ lockR' = lockR \ {t}
    /\ thr' = [thr EXCEPT ![t] = Idle]
    /\ UNCHANGED <<bootVars, alive, srvVars, fprVars, lockW, everSet, lastPayload, overwrote,
                   nonceVars, bgVars, unitVars>>

\* The read as written.
GetRead(t) ==
    /\ alive
    /\ thr[t].pc = "get_cs"
    /\ LET r == KeyMaterialRet(keyMaterial)
       IN  res' = [NoResult EXCEPT !.op = "get", !.km = r.km, !.err = r.err,
                                   !.code = IF thr[t].via = "lib" THEN ""
                                            ELSE IF r.err = NoErr THEN "200" ELSE "404"]
    /\ lockR' = lockR \ {t}
    /\ thr' = [thr EXCEPT ![t] = Idle]
    /\ UNCHANGED <<bootVars, alive, srvVars, fprVars, keyMaterial, lockW, everSet, lastPayload, overwrote,
                   nonceVars, bgVars, unitVars>>

\* ------------------------------------------------------------- nonce store
\* Issue: record n with its creation time.
cacheAdd(c, n, now) == [c EXCEPT !.items = @ \cup {[n |-> n, t |-> now]}]

\* An entry of n that has not outlived the time-to-live.
cacheFresh(c, n, now) == {i \in c.items : i.n = n /\ now - i.t <= c.ttl}

\* Consume: check presence and non-expiry and remove the entry, atomically.
\* Variant: the entry is left in the store.
cacheConsume_keep(c, n, now) ==
    [ok |-> cacheFresh(c, n, now) # {}, cache |-> c]

\* Consume as specified.
cacheConsume(c, n, now) ==
    IF cacheFresh(c, n, now) # {}
    THEN [ok |-> TRUE, cache |-> [c EXCEPT !.items = {i \in @ : i.n # n}]]
    ELSE [ok |-> FALSE, cache |-> c]

\* Eviction: drop the entries older than the time-to-live.
cacheEvict(c, now) == [c EXCEPT !.items = {i \in @ : now - i.t <= c.ttl}]

\* time passes
Tick ==
    /\ alive
    /\ clock < MaxClock
    /\ clock' = clock + 1
    /\ UNCHANGED <<bootVars, alive, srvVars, fprVars, kmVars, nonceCache, issued, consumed, evid,
                   bgVars, thrVars, unitVars>>

\* the store's background eviction
Evict ==
    /\ alive
    /\ nonceCache.made
    /\ cacheEvict(nonceCache, clock) # nonceCache
    /\ nonceCache' = cacheEvict(nonceCache, clock)
    /\ UNCHANGED <<bootVars, alive, srvVars, fprVars, kmVars, clock, issued, consumed, evid,
                   bgVars, thrVars, unitVars>>

\* ---------------------------------------------------------------- requests
Methods == {"GET", "PUT"}
Paths == {pathAttestation, pathNonce, pathGetKeys, pathPostKeys, pathRoot, "/other"}

Serving(srv) == IF srv = "pub" THEN pubSrv = "serving" ELSE privSrv = "serving"
RoutesOf(srv) == IF srv = "pub" THEN pubRoutes ELSE privRoutes

\* chi's Mux: the handler registered for the method and path; 405 when the
\* path is registered for other methods only, 404 when it is not registered.
Dispatch(routes, method, path) ==
    IF \E r \in routes : r.method = method /\ r.path = path
    THEN (CHOOSE r \in routes : r.method = method /\ r.path = path).handler
    ELSE IF \E r \in routes : r.path = path THEN "405" ELSE "404"

Arrives(t, srv, handler, method, path) ==
    /\ alive
    /\ thr[t].pc = "idle"
    /\ Serving(srv)
    /\ Dispatch(RoutesOf(srv), method, path) = handler

\* A request no route matches: chi answers 404 or 405.
ServeUnrouted(t, srv, method, path) ==
    /\ \E h \in {"404", "405"} :
          /\ Arrives(t, srv, h, method, path)
          /\ res' = [NoResult EXCEPT !.op = "unrouted", !.via = srv, !.method = method,
                                      !.path = path, !.code = h]
    /\ UNCHANGED <<bootVars, alive, srvVars, fprVars, kmVars, nonceVars, bgVars, thr, unitVars>>

\* getIndexHandler: the index page.
ServeIndex(t, srv, method, path) ==
    /\ Arrives(t, srv, "index", method, path)
    /\ res' = [NoResult EXCEPT !.op = "index", !.code = "200"]
    /\ UNCHANGED <<bootVars, alive, srvVars, fprVars, kmVars, nonceVars, bgVars, thr, unitVars>>

\* getSetKeysHandler: the request's payload goes to e.SetKeyMaterial.
ServeSetKeys(t, srv, method, path, p) ==
    /\ Arrives(t, srv, "setKeys", method, path)
    /\ LockAcquire(t)
    /\ thr' = [thr EXCEPT ![t] = [pc |-> "set_cs", via |-> srv, p |-> p, n |-> 0]]
    /\ UNCHANGED <<bootVars, alive, srvVars, fprVars, keyMaterial, everSet, lastPayload, overwrote,
                   nonceVars, bgVars, res, unitVars>>

\* getKeysHandler: answers with e.KeyMaterial().
ServeGetKeys(t, srv, method, path) ==
    /\ Arrives(t, srv, "getKeys", method, path)
    /\ RLockAcquire(t)
    /\ thr' = [thr EXCEPT ![t] = [pc |-> "get_cs", via |-> srv, p |-> NilPayload, n |-> 0]]
    /\ UNCHANGED <<bootVars, alive, srvVars, fprVars, keyMaterial, everSet, lastPayload, overwrote,
                   nonceVars, bgVars, res, unitVars>>

\* getNonceHandler: a fresh random nonce is recorded in e.nonceCache and
\* returned (a value already issued is not drawn again).
ServeNonce(t, srv, method, path) ==
    /\ Arrives(t, srv, "nonce", method, path)
    /\ \E n \in Nonces \ issued :
          /\ nonceCache' = cacheAdd(nonceCache, n, clock)
          /\ issued' = issued \cup {n}
          /\ res' = [NoResult EXCEPT !.op = "nonce", !.code = "200", !.nonce = n]
    /\ UNCHANGED <<bootVars, alive, srvVars, fprVars, kmVars, clock, consumed, evid, bgVars,
                   thr, unitVars>>

\* The attestation endpoint, first step: the nonce the request presents is
\* consumed; a request whose nonce cannot be consumed is rejected.
ServeAttestation(t, srv, method, path, n) ==
    /\ Arrives(t, srv, "attestation", method, path)
    /\ LET c == cacheConsume(nonceCache, n, clock)
       IN  /\ nonceCache' = c.cache
           /\ IF c.ok
              THEN /\ thr' = [thr EXCEPT ![t] = [pc |-> "attest", via |-> srv, p |-> NilPayload, n |-> n]]
                   /\ consumed' = [consumed EXCEPT ![n] = @ + 1]
                   /\ res' = res
              ELSE /\ res' = [NoResult EXCEPT !.op = "attestation", !.code = "400", !.nonce = n]
                   /\ UNCHANGED <<thr, consumed>>
    /\ UNCHANGED <<bootVars, alive, srvVars, fprVars, kmVars, clock, issued, evid, bgVars, unitVars>>

\* What a read of e.certFpr yields: the handler holds &e.certFpr and no lock,
\* so a read that overlaps a store is a data race and may see the old array,
\* the new one, or bytes of both.
TornFpr(old, new) == 1000 + 100 * old + new
FprReads ==
    IF fprWriter = {} THEN {certFpr}
    ELSE {certFpr, fprPending, TornFpr(certFpr, fprPending)}

\* The attestation endpoint, second step: the user data is the fingerprint
\* followed by the nonce; the attester returns the document or fails.
AttestEvidence(t) ==
    /\ alive
    /\ thr[t].pc = "attest"
    /\ \E f \in FprReads, ok \in BOOLEAN :
          IF ok
          THEN /\ res' = [NoResult EXCEPT !.op = "attestation", !.code = "200", !.nonce = thr[t].n, !.fpr = f]
               /\ evid' = [evid EXCEPT ![thr[t].n] = @ + 1]
          ELSE /\ res' = [NoResult EXCEPT !.op = "attestation", !.code = "500", !.nonce = thr[t].n]
               /\ evid' = evid
    /\ thr' = [thr EXCEPT ![t] = Idle]
    /\ UNCHANGED <<bootVars, alive, srvVars, fprVars, kmVars, nonceCache, clock, issued, consumed,
                   bgVars, unitVars>>

\* ------------------------------------------- setCertFingerprint on its own
\* e.setCertFingerprint(rawData) is called on a constructed enclave.
FprCall(input) ==
    /\ alive
    /\ mainPc = "created"
    /\ fprPc = "idle"
    /\ fprArg' = input
    /\ fprIn' = input
    /\ fprPc' = "loop"
    /\ fprRet' = NoErr
    /\ UNCHANGED <<bootVars, alive, srvVars, fprVars, kmVars, nonceVars, bgVars, thrVars>>

\* One evaluation of the loop guard and, when it holds, one iteration
\* (lines 349-367), the store of line 360 included.
FprStep ==
    /\ alive
    /\ fprPc = "loop"
    /\ IF ~outerRestNotNil
       THEN /\ fprPc' = "ret"
            /\ fprRet' = NoErr
            /\ UNCHANGED <<fprIn, certFpr>>
       ELSE LET it == certFprIter(fprIn)
            IN  /\ fprPc' = IF it.ret THEN "ret" ELSE "loop"
                /\ fprRet' = it.err
                /\ fprIn' = it.rawData
                /\ certFpr' = IF it.store THEN it.fpr ELSE certFpr
    /\ UNCHANGED <<bootVars, alive, srvVars, fprWriter, fprPending, kmVars, nonceVars, bgVars,
                   thrVars, fprArg>>

\* The caller has read the error setCertFingerprint returned.
FprReturned ==
    /\ alive
    /\ fprPc = "ret"
    /\ fprPc' = "idle"
    /\ fprArg' = <<>>
    /\ fprIn' = <<>>
    /\ fprRet' = NoErr
    /\ UNCHANGED <<bootVars, alive, srvVars, fprVars, kmVars, nonceVars, bgVars, thrVars>>

\* ------------------------------------------------------------ specifications
Boot ==
    \/ NewEnclave
    \/ StartBegin
    \/ GenCert
    \/ MainSetCertFingerprint
    \/ MainFprStore
    \/ GenKeyPair
    \/ AcmeListen
    \/ AcmeInstall
    \/ StartWebServers
    \/ PrivServe
    \/ PubListen

Background ==
    \/ CachePut
    \/ BgPoll
    \/ BgSetCertFingerprint
    \/ BgFprStore

KeyOps(T) ==
    \E t \in T :
        \/ \E p \in Payloads : CallSetKeyMaterial(t, p)
        \/ CallKeyMaterial(t)
        \/ SetStore(t)
        \/ GetRead(t)

Requests(T) ==
    \E t \in T, srv \in {"pub", "priv"}, method \in Methods, path \in Paths :
        \/ ServeUnrouted(t, srv, method, path)
        \/ ServeIndex(t, srv, method, path)
        \/ \E p \in Payloads : ServeSetKeys(t, srv, method, path, p)
        \/ ServeGetKeys(t, srv, method, path)

NonceRequests(T) ==
    \/ \E t \in T, srv \in {"pub", "priv"}, method \in Methods, path \in Paths :
          \/ ServeNonce(t, srv, method, path)
          \/ \E n \in Nonces : ServeAttestation(t, srv, method, path, n)
    \/ \E t \in T : AttestEvidence(t)

\* The enclave from construction on, its certificate provisioning, and the
\* application's calls to the key material registry.
Next ==
    \/ Boot
    \/ Background
    \/ KeyOps(Threads)

Spec == Init /\ [][Next]_vars

\* The enclave serving requests of every method and path on both listeners,
\* one request at a time.  The certificate poller is left unscheduled: it
\* touches neither the routers, the key material nor the nonce store.
NextRoute ==
    \/ Boot
    \/ Requests({1})
    \/ NonceRequests({1})
    \/ SetStore(1)
    \/ GetRead(1)

SpecRoute == Init /\ [][NextRoute]_vars

\* The enclave serving concurrent requests for nonces and attestation
\* documents while time passes.  The certificate poller is left unscheduled:
\* it does not touch the nonce store.
NextNonce ==
    \/ Boot
    \/ NonceRequests(Threads)
    \/ Tick
    \/ Evict

SpecNonce == Init /\ [][NextNonce]_vars

\* Certificate provisioning in both modes with the public listener answering
\* requests for nonces and attestation documents meanwhile.
NextAcme ==
    \/ Boot
    \/ Background
    \/ NonceRequests({1})

SpecAcme == Init /\ [][NextAcme]_vars

\* Startup and setupAcme's goroutine alone, the goroutine being scheduled
\* whenever it can take a step (the Go scheduler starves no runnable
\* goroutine; time.Sleep and a lookup of a cached entry return).
NextLive ==
    \/ Boot
    \/ Background

BgFairness ==
    /\ WF_vars(BgPoll)
    /\ WF_vars(BgSetCertFingerprint)
    /\ WF_vars(BgFprStore)

SpecLive == Init /\ [][NextLive]_vars /\ BgFairness

\* setCertFingerprint called on a constructed enclave with any PEM input.
NextFpr ==
    \/ NewEnclave
    \/ \E input \in PemInputs : FprCall(input)
    \/ FprStep
    \/ FprReturned

SpecFpr == Init /\ [][NextFpr]_vars

\* ------------------------------------------------------------------ claims
\* A step in which goroutine t returns from KeyMaterial.
KeyMaterialReturns(t) == thr[t].pc = "get_cs" /\ thr'[t].pc = "idle"

\* C1: last write wins.  A KeyMaterial call made before any SetKeyMaterial
\* has stored returns the error "no key material registered"; one made after
\* the latest SetKeyMaterial stored a non-empty payload P returns exactly P
\* and no error.
C1_LastWriteWins ==
    [][\A t \in Threads :
          KeyMaterialReturns(t) =>
             /\ ~everSet => (res'.err = errNoKeyMaterial /\ res'.km = NilPayload)
             /\ (everSet /\ NonEmpty(lastPayload)) =>
                   (res'.err = NoErr /\ res'.km = lastPayload)]_vars

\* C1 witness: a second payload has overwritten a first and KeyMaterial has
\* returned the second.
C1_Witness ==
    /\ res.op = "get"
    /\ res.err = NoErr
    /\ res.km = BytePayload(<<2>>)
    /\ lastPayload = BytePayload(<<2>>)
    /\ overwrote

\* C2 as stated: once SetKeyMaterial has stored any payload whatsoever, the
\* nil payload included, no KeyMaterial call returns "no key material
\* registered".
C2_NeverUnsetAfterSet ==
    [][\A t \in Threads :
          (KeyMaterialReturns(t) /\ everSet) => res'.err # errNoKeyMaterial]_vars

\* C2 amended: KeyMaterial returns "no key material registered" exactly when
\* the stored value is nil, that is before the first SetKeyMaterial or when
\* the latest SetKeyMaterial stored the nil payload; after a store of any
\* non-nil payload, an empty one included, it returns that payload.
C2_UnsetIffNil ==
    [][\A t \in Threads :
          KeyMaterialReturns(t) =>
             /\ res'.err = errNoKeyMaterial <=> (~everSet \/ lastPayload = NilPayload)
             /\ res'.err = NoErr => res'.km = lastPayload]_vars

\* C2 witness: SetKeyMaterial has stored nil and KeyMaterial has then
\* returned the error.
C2_Witness ==
    /\ everSet
    /\ lastPayload = NilPayload
    /\ res.op = "get"
    /\ res.err = errNoKeyMaterial

\* C5: NewEnclave returns an error and no enclave exactly when the FQDN is
\* empty or the port is 0, the missing FQDN being reported first; nothing is
\* then created or started.
C5_ValidationFirst ==
    /\ mainPc # "new" => (mainPc = "new_err" <=> (cfg.FQDN = "" \/ cfg.Port = 0))
    /\ mainPc = "new_err" =>
          /\ retErr = IF cfg.FQDN = "" THEN errCfgMissingFQDN ELSE errCfgMissingPort
          /\ pubRoutes = {} /\ privRoutes = {}
          /\ ~nonceCache.made
          /\ pubSrv = "stopped" /\ privSrv = "stopped"
          /\ tlsConfig = "none" /\ bgPc = "none"
          /\ certFpr = ZeroFpr /\ keyMaterial = NilPayload
    /\ mainPc \notin {"new", "new_err"} =>
          /\ nonceCache.made
          /\ pubRoutes # {} /\ privRoutes # {}

\* C5 witness: both fields are missing and the missing FQDN is reported.
C5_Witness ==
    /\ mainPc = "new_err"
    /\ cfg.FQDN = ""
    /\ cfg.Port = 0
    /\ retErr = errCfgMissingFQDN

\* C9: in self-signed mode the fingerprint is stored and the certificate
\* installed before either web server is started, so the public listener
\* never serves while the fingerprint is all-zero.
C9_SelfSignedOrdering ==
    (~cfg.UseACME /\ (pubSrv # "stopped" \/ privSrv # "stopped")) =>
        /\ certFpr # ZeroFpr
        /\ certFpr = sha256Sum256(SelfSignedPem[1].der)
        /\ fprWriter = {}
        /\ tlsConfig = "static"

\* C9 witness: the public listener serves in self-signed mode.
C9_Witness ==
    /\ ~cfg.UseACME
    /\ pubSrv = "serving"
    /\ privSrv = "serving"
    /\ mainPc = "ret_ok"
    /\ certFpr # ZeroFpr

\* C10 as stated, for the stores the claim singles out: while the public
\* listener is serving, a goroutine storing to the certificate fingerprint
\* holds the enclave's lock exclusively.
C10_FprStoreHoldsLock ==
    pubSrv = "serving" => \A g \in fprWriter : g \in lockW

\* Positions of the certificate-type blocks of a PEM input that hold a
\* parseable certificate that is not a CA, and of those that do not parse.
LeafAt(data) ==
    {i \in 1..Len(data) :
        /\ data[i].kind = "block" /\ data[i].type = "CERTIFICATE"
        /\ x509ParseCertificate(data[i].der).err = NoErr
        /\ ~x509ParseCertificate(data[i].der).IsCA}
UnparseableAt(data) ==
    {i \in 1..Len(data) :
        /\ data[i].kind = "block" /\ data[i].type = "CERTIFICATE"
        /\ x509ParseCertificate(data[i].der).err # NoErr}
FirstOf(S) == CHOOSE i \in S : \A j \in S : i <= j
AllBlocks(data) == \A i \in 1..Len(data) : data[i].kind = "block"
NoBlocks(data) == \A i \in 1..Len(data) : data[i].kind # "block"

\* setCertFingerprint has returned, having stored the digest of the block at
\* position i of its argument and having decoded nothing after that block.
StoredLeaf(i) ==
    /\ fprRet = NoErr
    /\ certFpr = sha256Sum256(fprArg[i].der)
    /\ fprIn = SubSeq(fprArg, i, Len(fprArg))

\* C6 as stated: on every input made of decodable blocks with at least one
\* parseable non-CA certificate, setCertFingerprint stores the digest of the
\* first such certificate.
C6_FirstLeafAlways ==
    (fprPc = "ret" /\ AllBlocks(fprArg) /\ LeafAt(fprArg) # {}) =>
        StoredLeaf(FirstOf(LeafAt(fprArg)))

\* C6 amended: ... provided no certificate-type block before that
\* certificate fails to parse.  The CA certificates and the blocks of other
\* types before it are skipped and nothing after it is decoded.
C6_FirstLeafIfParseable ==
    (/\ fprPc = "ret"
     /\ AllBlocks(fprArg)
     /\ LeafAt(fprArg) # {}
     /\ \A i \in UnparseableAt(fprArg) : i > FirstOf(LeafAt(fprArg))) =>
        StoredLeaf(FirstOf(LeafAt(fprArg)))

\* C6 witness: a private key and a CA certificate precede the leaf, whose
\* digest replaces an earlier fingerprint.
C6_Witness ==
    /\ fprPc = "ret"
    /\ fprArg = <<KeyBlock, CertBlock("ca"), CertBlock("leafB")>>
    /\ fprRet = NoErr
    /\ certFpr = sha256Sum256("leafB")

\* C7: on an input without any decodable PEM block setCertFingerprint
\* returns an error and leaves the stored fingerprint as it was.
C7_NoPemFails ==
    [][(fprPc = "loop" /\ NoBlocks(fprArg)) =>
          /\ fprPc' = "ret"
          /\ fprRet' = errPemDecode
          /\ certFpr' = certFpr]_vars

\* C7 witness: the call has returned the error on an input that is not PEM,
\* and an earlier fingerprint is still stored.
C7_Witness ==
    /\ fprPc = "ret"
    /\ fprArg = <<Junk, Junk>>
    /\ fprRet = errPemDecode
    /\ certFpr = sha256Sum256("leafA")

\* C8: PUT /post-keys is routed on the enclave-internal server only; the
\* public listener routes GET /attestation, GET /nonce, GET /get-keys and
\* GET / and nothing else, and no request arriving on it changes the key
\* material.
C8_TrustBoundary ==
    [][/\ EnclaveExists' =>
             /\ pubRoutes' = {Route("GET", pathAttestation, "attestation"),
                              Route("GET", pathNonce, "nonce"),
                              Route("GET", pathGetKeys, "getKeys"),
                              Route("GET", pathRoot, "index")}
             /\ Route("PUT", pathPostKeys, "setKeys") \in privRoutes'
       /\ \A t \in Threads : thr'[t].pc = "set_cs" => thr'[t].via # "pub"
       /\ keyMaterial' # keyMaterial =>
             \E t \in Threads : thr[t].pc = "set_cs" /\ thr[t].via = "priv" /\ thr'[t].pc = "idle"]_vars

\* C8 witness: key material was injected through the internal server, and a
\* PUT /post-keys arriving on the public listener has then been answered
\* 404 with the key material as it was.
C8_Witness ==
    /\ res.op = "unrouted"
    /\ res.via = "pub"
    /\ res.method = "PUT"
    /\ res.path = pathPostKeys
    /\ res.code = "404"
    /\ everSet
    /\ keyMaterial = BytePayload(<<1>>)

C4_NoConsumeAfterExpiry ==
    [][\A n \in Nonces :
          consumed'[n] > consumed[n] =>
             \E i \in nonceCache.items : i.n = n /\ clock - i.t <= defaultItemExpiry]_vars

\* C4 witness: a nonce that was never consumed has outlived the expiry, its
\* entry has not been evicted, and a request presenting it has been
\* rejected.
C4_Witness ==
    \E i \in nonceCache.items :
        /\ clock - i.t > defaultItemExpiry
        /\ consumed[i.n] = 0
        /\ i.n \in issued
        /\ res.op = "attestation"
        /\ res.code = "400"
        /\ res.nonce = i.n

\* C11: whenever Start has returned an error no web server has been started
\* (and none is started later: the servers are started only on the way to a
\* successful return, after the TLS configuration is installed); when the
\* error is the HTTP-01 listener's, setupAcme returned it before installing
\* the certificate resolver and before launching the cache poller.
C11_ProvisioningFailureStops ==
    /\ mainPc = "ret_err" =>
          /\ retErr # NoErr
          /\ pubSrv = "stopped" /\ privSrv = "stopped"
    /\ (mainPc = "ret_err" /\ retErr = errHTTP01) =>
          /\ cfg.UseACME
          /\ tlsConfig = "none"
          /\ bgPc = "none"
          /\ certFpr = ZeroFpr
    /\ (mainPc = "ret_err" /\ retErr # errUnixSocket) => (tlsConfig = "none" /\ bgPc = "none")
    /\ (pubSrv # "stopped" \/ privSrv # "stopped") =>
          /\ mainPc = "ret_ok"
          /\ tlsConfig # "none"

\* C11 witness: in automated-issuance mode Start has returned the HTTP-01
\* listener's error.
C11_Witness ==
    /\ cfg.UseACME
    /\ mainPc = "ret_err"
    /\ retErr = errHTTP01
    /\ alive

\* C12 as stated: Start returns to its caller only when something went
\* wrong, and then with an error.
C12_StartReturnsOnlyOnError ==
    mainPc \in {"ret_ok", "ret_err"} => retErr # NoErr

\* C13: in automated-issuance mode the goroutine calling Start never stores
\* the fingerprint; every store is the polling goroutine's and is made of
\* the data one of its cache lookups returned.
C13_AsyncFingerprint ==
    [][cfg.UseACME =>
          /\ MainG \notin fprWriter'
          /\ (fprWriter' # fprWriter \/ certFpr' # certFpr) =>
                /\ bgPc \in {"got", "fpr_store"}
                /\ certCache.hit
                /\ bgRaw = certCache.data
                /\ mainPc \in {"start_servers", "ret_ok", "ret_err"}]_vars

\* C13 witness: the public listener is serving and has answered an
\* attestation request with the all-zero fingerprint, the certificate not
\* being in the cache yet.
C13_Witness ==
    /\ cfg.UseACME
    /\ pubSrv = "serving"
    /\ ~certCache.hit
    /\ bgPc = "poll"
    /\ certFpr = ZeroFpr
    /\ res.op = "attestation"
    /\ res.code = "200"
    /\ res.fpr = ZeroFpr

\* The cache holds, for the configured domain, a chain whose leaf
\* setCertFingerprint reaches.
ValidChainCached ==
    /\ cfg.UseACME
    /\ bgPc # "none"
    /\ certCache.hit
    /\ LeafAt(certCache.data) # {}
    /\ \A i \in UnparseableAt(certCache.data) : i > FirstOf(LeafAt(certCache.data))

\* C14: once the cache holds a valid chain (an entry, once written, stays),
\* the fairly scheduled poller eventually stops polling with the fingerprint
\* set to the digest of the chain's leaf.
C14_EventualFingerprint ==
    ValidChainCached ~>
        (/\ bgPc = "done"
         /\ certFpr = sha256Sum256(certCache.data[FirstOf(LeafAt(certCache.data))].der))

\* C14 witness: after at least one failed lookup the poller has stopped and
\* the fingerprint is the digest of the cached leaf.
C14_Witness ==
    /\ ValidChainCached
    /\ polls > 0
    /\ bgPc = "done"
    /\ certFpr = sha256Sum256("leafB")

\* C15 as stated: whatever fails in setupAcme's goroutine, the process keeps
\* running.
C15_BgFailureKeepsRunning ==
    bgPc # "none" => alive

\* C16: as long as no lookup has found the certificate, the poller is still
\* in its loop, able to look up again, whatever the number of lookups that
\* have failed; the fingerprint is all-zero, the process runs, and Start has
\* returned no error other than the local socket's.
C16_UnboundedPolling ==
    (bgPc # "none" /\ ~certCache.hit) =>
        /\ bgPc = "poll"
        /\ alive
        /\ certFpr = ZeroFpr
        /\ fprWriter = {}
        /\ mainPc \in {"start_servers", "ret_ok", "ret_err"}
        /\ mainPc = "ret_err" => retErr = errUnixSocket
        /\ mainPc = "ret_ok" => retErr = NoErr

\* C16 witness: MaxPolls lookups have failed, Start has returned nil, the
\* listener serves and the poller is still polling.
C16_Witness ==
    /\ cfg.UseACME
    /\ bgPc = "poll"
    /\ polls = MaxPolls
    /\ ~certCache.hit
    /\ mainPc = "ret_ok"
    /\ pubSrv = "serving"
    /\ certFpr = ZeroFpr

\* C17: after NewEnclave and one Start, a store to the fingerprint begins
\* only while the fingerprint is all-zero and no other store is under way,
\* and a non-zero fingerprint never changes, whatever key material is set
\* or read meanwhile.
C17_FprWriteOnce ==
    [][/\ certFpr # ZeroFpr => certFpr' = certFpr
       /\ fprWriter' \ fprWriter # {} => (certFpr = ZeroFpr /\ fprWriter = {})]_vars

\* C17 witness: in automated-issuance mode the fingerprint is set, the
\* poller has ended, and key material has since been overwritten and read.
C17_Witness ==
    /\ cfg.UseACME
    /\ bgPc = "done"
    /\ certFpr = sha256Sum256("leafB")
    /\ overwrote
    /\ lastPayload = BytePayload(<<1>>)
    /\ res.op = "get"
    /\ res.km = BytePayload(<<1>>)

\* C18: at most one goroutine is inside SetKeyMaterial's critical section,
\* and then none is inside KeyMaterial's; the goroutines inside the critical
\* sections are exactly the holders of the lock; and outside a writer's
\* critical section the stored value is the whole payload of the latest
\* store (nil before the first), which is what a reader returns.
C18_ReaderWriterExclusion ==
    /\ Cardinality(lockW) <= 1
    /\ lockW # {} => lockR = {}
    /\ \A t \in Threads : thr[t].pc = "set_cs" <=> t \in lockW
    /\ \A t \in Threads : thr[t].pc = "get_cs" <=> t \in lockR
    /\ keyMaterial = IF everSet THEN lastPayload ELSE NilPayload
    /\ res.op = "get" =>
          \/ res.err = errNoKeyMaterial /\ res.km = NilPayload
          \/ res.err = NoErr /\ res.km \in Payloads \ {NilPayload}

\* C18 witness: two KeyMaterial calls are inside their critical sections at
\* once, after a payload was stored.
C18_Witness ==
    /\ Cardinality(lockR) >= 2
    /\ lockW = {}
    /\ everSet
    /\ keyMaterial = BytePayload(<<1>>)

\* A step of goroutine t's KeyMaterial call: it enters or leaves the
\* critical section.
KeyMaterialStep(t) ==
    \/ thr[t].pc # "get_cs" /\ thr'[t].pc = "get_cs"
    \/ thr[t].pc = "get_cs" /\ thr'[t].pc # "get_cs"

\* C19: no step of a KeyMaterial call, successful or not, changes the
\* stored key material, the fingerprint or the nonce store, or ends the
\* process.
C19_KeyMaterialFrame ==
    [][\A t \in Threads :
          KeyMaterialStep(t) =>
             /\ keyMaterial' = keyMaterial
             /\ certFpr' = certFpr
             /\ fprWriter' = fprWriter
             /\ nonceCache' = nonceCache
             /\ alive' = alive
             /\ alive]_vars

\* C19 witness: with the fingerprint set and the listener serving, a
\* KeyMaterial call has failed and the process runs on.
C19_Witness ==
    /\ res.op = "get"
    /\ res.err = errNoKeyMaterial
    /\ keyMaterial = NilPayload
    /\ certFpr # ZeroFpr
    /\ nonceCache.made
    /\ pubSrv = "serving"
    /\ alive

\* C20: every iteration of setCertFingerprint's loop either returns or
\* leaves less input to decode, so the call returns after at most as many
\* iterations as the input has items, plus one; it returns no error only in
\* the iteration that decoded a non-CA certificate of the input and stored
\* its digest; on an input without such a certificate it returns an error
\* and stores nothing.
C20_SuccessMeansStored ==
    [][fprPc = "loop" =>
          /\ fprPc' = "ret" \/ Len(fprIn') < Len(fprIn)
          /\ (fprPc' = "ret" /\ fprRet' = NoErr) =>
                /\ LeafAt(fprArg) # {}
                /\ pemDecode(fprIn').block \in {fprArg[i] : i \in LeafAt(fprArg)}
                /\ certFpr' = sha256Sum256(pemDecode(fprIn').block.der)
          /\ LeafAt(fprArg) = {} =>
                /\ certFpr' = certFpr
                /\ fprPc' = "ret" => fprRet' # NoErr]_vars

\* C20 witness: on a CA certificate followed by a private key the call has
\* returned an error, an earlier fingerprint still being stored.
C20_Witness ==
    /\ fprPc = "ret"
    /\ fprArg = <<CertBlock("ca"), KeyBlock>>
    /\ fprRet = errPemDecode
    /\ certFpr = sha256Sum256("leafB")

====
